---- MODULE Spec2Model ----
(***************************************************************************)
(* Document store of the HACCP logbook on top of the GitHub "contents"     *)
(* API: the GitHubStore class (src/store/githubStore.js), the              *)
(* ghGetFile/ghPutFile helpers and their routes (src/unnamed/part_003),    *)
(* commitToGitHub (src/unnamed/part_007), the history listings, the admin  *)
(* shop routes over readJson/writeJson (src/server.js) and the offline     *)
(* queue of the page (src/public/assets/helpers.js).                       *)
(***************************************************************************)
EXTENDS Integers, Sequences, FiniteSets, TLC

VARIABLES
    remote,     \* the repository branch: file path -> [text, sha]
    shaCtr,     \* number of revisions committed so far (source of fresh shas)
    now,        \* Date.now() of the server process, in ms
    store,      \* the GitHubStore instance: token, lastSha, cache, cacheTs
                \* (cacheSha: the revision whose content the cache holds)
    calls,      \* the pending async calls of store.read() / store.write()
    hs,         \* the requests being handled by the routes of part_003
    listing,    \* the answer of the last GET /api/history/list
    saved,      \* the <<shopId, date>> keys whose entry a request has saved
    gh7,        \* part_007: whether the Octokit client exists (GITHUB_TOKEN set)
    local7,     \* part_007: the files under the local data directory
    cm,         \* part_007: the POST /api/checklist request being handled
    sr,         \* the requests being handled by the shop routes of part_003
    gen,        \* nanoid: ids handed out; the default shops bootstrap has committed
    queue,      \* helpers.js: the jobs stored under 'bunca.queue.v1' in localStorage
    online,     \* helpers.js: navigator.onLine
    fl,         \* helpers.js: the runs of flushQueue
    sent,       \* helpers.js: per job, the requests the server has answered ok
    enq         \* helpers.js: the number of jobs addToQueue has stored

vars == <<remote, shaCtr, now, store, calls, hs, listing, saved, gh7, local7, cm, sr, gen,
          queue, online, fl, sent, enq>>

\* The state of the browser page (helpers.js) and that of the server.
pageVars == <<queue, online, fl, sent, enq>>
serverVars == <<remote, shaCtr, now, store, calls, hs, listing, saved, gh7, local7, cm, sr, gen>>

\* What the steps of one component leave alone.
outsideStore == <<hs, listing, saved, gh7, local7, cm, sr, gen, pageVars>>
outsideGh == <<store, calls, gh7, local7, cm, sr, gen, pageVars>>
outside7 == <<store, calls, hs, listing, saved, sr, gen, pageVars>>
outsideShops == <<now, store, calls, hs, listing, saved, gh7, local7, cm, pageVars>>

(***************************************************************************)
(* Bounds of the model.                                                    *)
(***************************************************************************)
MaxSha == 3        \* revisions the remote accepts before the model stops writing
MaxPeriods == 1    \* cache periods (of TTL ms) the clock may advance
MaxIds == 2        \* ids nanoid hands out before the model stops asking for one
MaxJobs == 3       \* jobs addToQueue stores before the model stops enqueueing
MaxSends == 2      \* ok answers to the requests of one job before the model stops sending

(***************************************************************************)
(* Program constants.                                                      *)
(***************************************************************************)
TTL == 5000        \* githubStore.js:27, "5s cache"

StartClock == 2 * TTL   \* Date.now() at start: far from cacheTs = 0

Callers == {"c1", "c2"}       \* concurrent callers of one GitHubStore
SeqCallers == {"c1"}          \* a single caller awaiting each call in turn
Marks == {"a", "b"}
InitDb == {}                  \* { users: [], shops: [], entries: {} }
DbValues == {InitDb} \cup {{m} : m \in Marks}    \* the db objects callers write
NoSha == 0                    \* null / undefined sha
ExtValues == {{"b"}}          \* what another process writes while two callers run

\* An optional value: <<>> is null/undefined, <<v>> is v.
None == <<>>
Some(v) == <<v>>

(***************************************************************************)
(* Paths are sequences of tokens; every token stands for the characters    *)
(* it spells, so that concatenation, endsWith and replace are computed.    *)
(***************************************************************************)
DbFile == <<"store", "/", "db", ".json">>

(***************************************************************************)
(* JSON.stringify / JSON.parse and base64: the text is what the remote     *)
(* stores, the value what the program sees.                                *)
(***************************************************************************)
JsonStringify(v) == <<"json", v>>
JsonParse(t) == t[2]
Base64Encode(t) == <<"b64", t>>
Base64Decode(b) == b[2]

(***************************************************************************)
(* The backing contents API.                                               *)
(***************************************************************************)
FaultStatuses == {401, 500}

Exists(p) == p \in DOMAIN remote

\* GET /contents/{path}: the file and its sha, or 404; or a failure status.
RemoteGet(p) ==
    IF Exists(p)
    THEN [status |-> 200, content |-> Base64Encode(remote[p].text), sha |-> remote[p].sha]
    ELSE [status |-> 404, content |-> None, sha |-> NoSha]

GetResponses(p) ==
    {RemoteGet(p)} \cup {[status |-> s, content |-> None, sha |-> NoSha] : s \in FaultStatuses}

\* PUT /contents/{path}: whether the presented sha lets the write through.
\* Creating needs no sha; updating needs the current one.  A PUT without a
\* sha on an existing file is refused by the API (422) or, where the API is
\* taken to write unconditionally, accepted: both outcomes are kept.
PutAccepts(p, sha) ==
    IF Exists(p)
    THEN IF sha = NoSha THEN {TRUE, FALSE} ELSE {sha = remote[p].sha}
    ELSE {sha = NoSha}

CommitTo(p, content) ==
    /\ shaCtr < MaxSha
    /\ shaCtr' = shaCtr + 1
    /\ remote' = [q \in DOMAIN remote \cup {p} |->
                    IF q = p THEN [text |-> Base64Decode(content), sha |-> shaCtr + 1]
                    ELSE remote[q]]

\* The remote's answer to one PUT, and its effect on the branch.
RemotePut(p, content, sha, resp) ==
    \/ /\ TRUE \in PutAccepts(p, sha)
       /\ CommitTo(p, content)
       /\ resp = [status |-> 200, sha |-> shaCtr + 1]
    \/ /\ FALSE \in PutAccepts(p, sha)
       /\ UNCHANGED <<remote, shaCtr>>
       /\ resp = [status |-> 409, sha |-> NoSha]
    \/ /\ UNCHANGED <<remote, shaCtr>>
       /\ resp \in {[status |-> s, sha |-> NoSha] : s \in FaultStatuses}

PutResponses == {[status |-> s, sha |-> h] : s \in {200, 409} \cup FaultStatuses, h \in 0..(MaxSha + 1)}

(***************************************************************************)
(* The routes of part_003 over ghGetFile / ghPutFile: requests in flight.  *)
(***************************************************************************)
Handlers == {"h1", "h2"}

NoEntry7 == [date |-> <<>>, shopId |-> <<>>, values |-> {}, tasks |-> {}, notes |-> "",
             savedAt |-> 0]

NoEntry == [values |-> {}, notes |-> "", updatedAt |-> 0, createdAt |-> 0]

IdleHandler == [pc |-> "idle", shop |-> <<>>, date |-> <<>>,
                req |-> [values |-> None, notes |-> None],
                at |-> 0, prev |-> None, entry |-> NoEntry,
                readSha |-> NoSha, sha |-> NoSha, err |-> 0]

IdleCommit == [pc |-> "idle", path |-> <<>>, entry |-> NoEntry7, sha |-> NoSha,
               status |-> 0]

\* A shop of the index, and the body of POST /api/shops (id optional).
NoShop == [id |-> <<>>, name |-> "", tpl |-> None]
NoIncoming == [id |-> None, name |-> "", tpl |-> None]

\* What a JSON document of the shop routes holds: the array of shops, or a
\* template.
ShopsDoc(shops) == [kind |-> "shops", shops |-> shops, tpl |-> ""]
TplDoc(t) == [kind |-> "tpl", shops |-> <<>>, tpl |-> t]

ShopHandlers == {"r1", "r2"}

IdleShop == [pc |-> "idle", route |-> "none", incoming |-> NoIncoming, delId |-> <<>>,
             shops |-> <<>>, base |-> <<>>, shop |-> NoShop, boot |-> <<>>,
             cont |-> "none", path |-> <<>>, doc |-> ShopsDoc(<<>>), sha |-> NoSha,
             status |-> 0]

NoGen == [ids |-> 0, booted |-> {}]

QuietShops ==
    /\ sr = [h \in ShopHandlers |-> IdleShop]
    /\ gen = NoGen

\* A run of flushQueue: the queue it loaded, the job it is fetching, keep,
\* and what each fetch of the run was answered.
Flushers == {"f1", "f2"}

IdleFlush == [pc |-> "idle", q |-> <<>>, i |-> 0, keep |-> <<>>, log |-> <<>>]

\* No page is open.
QuietPage ==
    /\ queue = <<>>
    /\ online = TRUE
    /\ fl = [f \in Flushers |-> IdleFlush]
    /\ sent = [j \in 1..MaxJobs |-> 0]
    /\ enq = 0

NoListing == [status |-> "none", http |-> 0, shop |-> <<>>, dates |-> <<>>]

(***************************************************************************)
(* GitHubStore (src/store/githubStore.js).                                 *)
(***************************************************************************)
IdleCall == [pc |-> "idle", op |-> "none", data |-> InitDb, sha |-> NoSha,
             resp |-> [status |-> 0, content |-> None, sha |-> NoSha],
             result |-> None, resultSha |-> NoSha, puts |-> 0,
             prev |-> [op |-> "none", was |-> "none", data |-> InitDb, sha |-> NoSha,
                       puts |-> 0]]

NoResp == IdleCall.resp

SetCall(c, r) == calls' = [calls EXCEPT ![c] = r]

\* Mutant of Fresh: an entry exactly TTL old still counts as fresh.
Fresh_Inclusive == (now - store.cacheTs) <= TTL

\* const fresh = (Date.now() - this.cacheTs) < 5000
Fresh == (now - store.cacheTs) < TTL

\* if (fresh && this.cache) return this.cache
CacheHit == Fresh /\ store.cache # None

\* api(): throws when the token is missing, else sends the request.
ApiThrows == ~store.token

\* write(): the request body is built, with sha: this.lastSha || undefined,
\* and the PUT is sent.
SendPut(c, op, data) ==
    IF ApiThrows
    THEN SetCall(c, [calls[c] EXCEPT !.pc = "thrown", !.op = op, !.data = data])
    ELSE SetCall(c, [calls[c] EXCEPT !.pc = "put", !.op = op, !.data = data,
                                     !.resp = NoResp,
                                     !.sha = store.lastSha, !.puts = @ + 1])

\* read(), up to the first await.
ReadStart(c) ==
    /\ calls[c].pc = "idle"
    /\ IF CacheHit
       THEN SetCall(c, [calls[c] EXCEPT !.pc = "returned", !.op = "read",
                                        !.result = store.cache,
                                        !.resultSha = store.cacheSha])
       ELSE IF ApiThrows
            THEN SetCall(c, [calls[c] EXCEPT !.pc = "thrown", !.op = "read"])
            ELSE SetCall(c, [calls[c] EXCEPT !.pc = "get", !.op = "read"])
    /\ UNCHANGED <<remote, shaCtr, now, store>>
    /\ UNCHANGED outsideStore

\* The remote answers the GET of read().
ServeGet(c) ==
    /\ calls[c].pc = "get"
    /\ \E r \in GetResponses(DbFile) :
         SetCall(c, [calls[c] EXCEPT !.pc = "gotGet", !.resp = r])
    /\ UNCHANGED <<remote, shaCtr, now, store>>
    /\ UNCHANGED outsideStore

\* Mutant of ReadCont: a 404 is answered with the default db, kept in the
\* cache, without creating the file.
ReadCont_CacheMissing(c) ==
    /\ calls[c].pc = "gotGet"
    /\ IF calls[c].resp.status = 200
       THEN /\ store' = [store EXCEPT
                           !.lastSha = calls[c].resp.sha,
                           !.cache = Some(JsonParse(Base64Decode(calls[c].resp.content))),
                           !.cacheSha = calls[c].resp.sha,
                           !.cacheTs = now]
            /\ SetCall(c, [calls[c] EXCEPT
                           !.pc = "returned", !.resp = NoResp,
                           !.result = Some(JsonParse(Base64Decode(calls[c].resp.content))),
                           !.resultSha = calls[c].resp.sha])
       ELSE IF calls[c].resp.status = 404
       THEN /\ store' = [store EXCEPT !.cache = Some(InitDb), !.cacheSha = NoSha,
                                      !.cacheTs = now]
            /\ SetCall(c, [calls[c] EXCEPT !.pc = "returned", !.resp = NoResp,
                                           !.result = Some(InitDb), !.resultSha = NoSha])
       ELSE /\ SendPut(c, "read", InitDb)
            /\ UNCHANGED store
    /\ UNCHANGED <<remote, shaCtr, now>>
    /\ UNCHANGED outsideStore

\* read() resumes with the response: 200 fills lastSha, cache and cacheTs;
\* any other status writes the default db.
ReadCont(c) ==
    /\ calls[c].pc = "gotGet"
    /\ IF calls[c].resp.status = 200
       THEN /\ store' = [store EXCEPT
                           !.lastSha = calls[c].resp.sha,
                           !.cache = Some(JsonParse(Base64Decode(calls[c].resp.content))),
                           !.cacheSha = calls[c].resp.sha,
                           !.cacheTs = now]
            /\ SetCall(c, [calls[c] EXCEPT
                           !.pc = "returned", !.resp = NoResp,
                           !.result = Some(JsonParse(Base64Decode(calls[c].resp.content))),
                           !.resultSha = calls[c].resp.sha])
       ELSE /\ SendPut(c, "read", InitDb)
            /\ UNCHANGED store
    /\ UNCHANGED <<remote, shaCtr, now>>
    /\ UNCHANGED outsideStore

\* write(data), up to the await of the PUT.
WriteStart(c, data) ==
    /\ calls[c].pc = "idle"
    /\ SendPut(c, "write", data)
    /\ UNCHANGED <<remote, shaCtr, now, store>>
    /\ UNCHANGED outsideStore

\* The remote answers the PUT of write().
ServePut(c) ==
    /\ calls[c].pc = "put"
    /\ \E r \in PutResponses :
         /\ RemotePut(DbFile, Base64Encode(JsonStringify(calls[c].data)), calls[c].sha,
                      [status |-> r.status, sha |-> r.sha])
         /\ SetCall(c, [calls[c] EXCEPT !.pc = "gotPut",
                          !.resp = [status |-> r.status, content |-> None, sha |-> r.sha]])
    /\ UNCHANGED <<now, store>>
    /\ UNCHANGED outsideStore

\* Mutant of WriteCont: a rejected PUT is sent again instead of throwing.
WriteCont_Retry(c) ==
    /\ calls[c].pc = "gotPut"
    /\ IF calls[c].resp.status # 200
       THEN /\ SetCall(c, [calls[c] EXCEPT !.pc = "put", !.resp = NoResp,
                                           !.sha = store.lastSha, !.puts = @ + 1])
            /\ UNCHANGED store
       ELSE /\ store' = [store EXCEPT !.lastSha = calls[c].resp.sha,
                                      !.cache = Some(calls[c].data),
                                      !.cacheSha = calls[c].resp.sha,
                                      !.cacheTs = now]
            /\ SetCall(c, [calls[c] EXCEPT !.pc = "returned",
                                           !.result = Some(calls[c].data),
                                           !.resultSha = calls[c].resp.sha])
    /\ UNCHANGED <<remote, shaCtr, now>>
    /\ UNCHANGED outsideStore

\* Mutant of WriteCont: the response status is not looked at.
WriteCont_IgnoreFail(c) ==
    /\ calls[c].pc = "gotPut"
    /\ store' = [store EXCEPT !.lastSha = calls[c].resp.sha,
                              !.cache = Some(calls[c].data),
                              !.cacheSha = calls[c].resp.sha,
                              !.cacheTs = now]
    /\ SetCall(c, [calls[c] EXCEPT !.pc = "returned",
                                   !.result = Some(calls[c].data),
                                   !.resultSha = calls[c].resp.sha])
    /\ UNCHANGED <<remote, shaCtr, now>>
    /\ UNCHANGED outsideStore

\* Mutant of WriteCont: a successful write leaves the cache as it was.
WriteCont_NoCacheUpdate(c) ==
    /\ calls[c].pc = "gotPut"
    /\ IF calls[c].resp.status # 200
       THEN /\ SetCall(c, [calls[c] EXCEPT !.pc = "thrown"])
            /\ UNCHANGED store
       ELSE /\ store' = [store EXCEPT !.lastSha = calls[c].resp.sha]
            /\ SetCall(c, [calls[c] EXCEPT !.pc = "returned",
                                           !.result = Some(calls[c].data),
                                           !.resultSha = calls[c].resp.sha])
    /\ UNCHANGED <<remote, shaCtr, now>>
    /\ UNCHANGED outsideStore

\* write() resumes: a non-ok response throws, an ok one fills lastSha, cache
\* and cacheTs and returns the data.
WriteCont(c) ==
    /\ calls[c].pc = "gotPut"
    /\ IF calls[c].resp.status # 200
       THEN /\ SetCall(c, [calls[c] EXCEPT !.pc = "thrown"])
            /\ UNCHANGED store
       ELSE /\ store' = [store EXCEPT !.lastSha = calls[c].resp.sha,
                                      !.cache = Some(calls[c].data),
                                      !.cacheSha = calls[c].resp.sha,
                                      !.cacheTs = now]
            /\ SetCall(c, [calls[c] EXCEPT !.pc = "returned",
                                           !.result = Some(calls[c].data),
                                           !.resultSha = calls[c].resp.sha])
    /\ UNCHANGED <<remote, shaCtr, now>>
    /\ UNCHANGED outsideStore

\* The caller takes the outcome of its call; it may call again.
Finish(c) ==
    /\ calls[c].pc \in {"returned", "thrown"}
    /\ SetCall(c, IdleCall)
    /\ UNCHANGED <<remote, shaCtr, now, store>>
    /\ UNCHANGED outsideStore

\* The same, for a caller that awaits each call before the next: what the
\* call it has just finished was is kept in prev.
FinishSeq(c) ==
    /\ calls[c].pc \in {"returned", "thrown"}
    /\ SetCall(c, [IdleCall EXCEPT
                     !.prev = [op |-> IF calls[c].pc = "returned" THEN calls[c].op ELSE "failed",
                               was |-> calls[c].op,
                               data |-> calls[c].data,
                               sha |-> calls[c].resultSha,
                               puts |-> calls[c].puts]])
    /\ UNCHANGED <<remote, shaCtr, now, store>>
    /\ UNCHANGED outsideStore

\* Another process commits to the same file, with the sha it has read.
ExternalPut(v) ==
    /\ CommitTo(DbFile, Base64Encode(JsonStringify(v)))
    /\ UNCHANGED <<now, store, calls>>
    /\ UNCHANGED outsideStore

\* Time passes: to just before, or to, the next multiple of the TTL.
Tick ==
    /\ now' = IF (now - StartClock) % TTL = TTL - 1
              THEN now + 1
              ELSE now + (TTL - 1) - ((now - StartClock) % TTL)
    /\ now' <= StartClock + TTL * MaxPeriods
    /\ UNCHANGED <<remote, shaCtr, store, calls>>
    /\ UNCHANGED outsideStore

InitRemote ==
    /\ shaCtr \in {0, 1}
    /\ remote \in IF shaCtr = 0 THEN {<<>>}
                  ELSE {[p \in {DbFile} |-> [text |-> JsonStringify(v), sha |-> 1]] : v \in DbValues}

Quiet7 ==
    /\ gh7 = TRUE
    /\ local7 = <<>>
    /\ cm = IdleCommit

InitStore ==
    /\ InitRemote
    /\ Quiet7
    /\ QuietShops
    /\ QuietPage
    /\ hs = [h \in Handlers |-> IdleHandler]
    /\ listing = NoListing
    /\ saved = {}
    /\ now = StartClock
    /\ store \in {[token |-> t, lastSha |-> NoSha, cache |-> None, cacheSha |-> NoSha,
                    cacheTs |-> 0] : t \in BOOLEAN}
    /\ calls = [c \in Callers |-> IdleCall]

StoreStep(c) ==
    \/ ReadStart(c)
    \/ ServeGet(c)
    \/ ReadCont(c)
    \/ \E v \in DbValues : WriteStart(c, v)
    \/ ServePut(c)
    \/ WriteCont(c)

\* Two callers share the instance while another process writes the file.
NextStore ==
    \/ \E c \in Callers : StoreStep(c) \/ Finish(c)
    \/ \E v \in ExtValues : ExternalPut(v)

SpecStore == InitStore /\ [][NextStore]_vars

\* One caller awaits each call before the next, time passes, and another
\* process writes the file.
NextSeq ==
    \/ \E c \in SeqCallers : StoreStep(c) \/ FinishSeq(c)
    \/ \E v \in DbValues : ExternalPut(v)
    \/ Tick

SpecSeq == InitStore /\ [][NextSeq]_vars

\* Two callers share the instance, each awaiting its own calls in turn:
\* both read, one of them also writes.
Writer == "c2"
WrittenValues == {{"a"}}

NextRace ==
    \/ \E c \in Callers :
          \/ ReadStart(c)
          \/ ServeGet(c)
          \/ ReadCont(c)
          \/ ServePut(c)
          \/ WriteCont(c)
          \/ FinishSeq(c)
    \/ \E v \in WrittenValues : WriteStart(Writer, v)

SpecRace == InitStore /\ [][NextRace]_vars

\* Two callers share the instance, each doing read-modify-write: a caller
\* writes a value it has computed from what its read() has just returned.
ValueOf(c) == IF c = "c1" THEN {"a"} ELSE {"b"}

WriteDerived(c) ==
    /\ calls[c].prev.op = "read"
    /\ WriteStart(c, ValueOf(c))

NextRmw ==
    \E c \in Callers :
        \/ ReadStart(c)
        \/ ServeGet(c)
        \/ ReadCont(c)
        \/ WriteDerived(c)
        \/ ServePut(c)
        \/ WriteCont(c)
        \/ FinishSeq(c)

SpecRmw == InitStore /\ [][NextRmw]_vars

(***************************************************************************)
(* part_003: the data layout, ghGetFile, ghPutFile and POST /api/checklist. *)
(***************************************************************************)
Shop1 == <<"s1">>
Shop2 == <<"s2">>
Date1 == <<"1">>
Date2 == <<"2">>

\* `data/entries/${shopId}/${dateStr}.json`
EntryPath(shopId, dateStr) ==
    <<"data", "/", "entries", "/">> \o shopId \o <<"/">> \o dateStr \o <<".json">>

\* `data/entries/${shopId}`
EntriesDir(shopId) == <<"data", "/", "entries", "/">> \o shopId

IsPrefix(a, b) == Len(a) <= Len(b) /\ SubSeq(b, 1, Len(a)) = a

\* The first path segment of a token sequence: up to the first "/".
RECURSIVE FirstSegment(_)
FirstSegment(t) ==
    IF t = <<>> \/ Head(t) = "/" THEN <<>> ELSE <<Head(t)>> \o FirstSegment(Tail(t))

\* The immediate children of a directory: name and type of each.
Children(dir) ==
    { [name |-> FirstSegment(SubSeq(p, Len(dir) + 2, Len(p))),
       type |-> IF Len(FirstSegment(SubSeq(p, Len(dir) + 2, Len(p)))) = Len(p) - Len(dir) - 1
                THEN "file" ELSE "dir"] :
      p \in {q \in DOMAIN remote : IsPrefix(dir \o <<"/">>, q)} }

\* GET /contents/{path} as ghGetFile sees it: a file, a directory listing
\* (an array), 404 for a path nothing was written under, or a failure.
GhResponses(p) ==
    (IF Exists(p)
     THEN {[status |-> 200, array |-> FALSE, items |-> {},
            content |-> Base64Encode(remote[p].text), sha |-> remote[p].sha]}
     ELSE IF Children(p) # {}
          THEN {[status |-> 200, array |-> TRUE, items |-> Children(p),
                 content |-> None, sha |-> NoSha]}
          ELSE {[status |-> 404, array |-> FALSE, items |-> {}, content |-> None, sha |-> NoSha]})
    \cup {[status |-> st, array |-> FALSE, items |-> {}, content |-> None, sha |-> NoSha] :
            st \in FaultStatuses}

\* Mutant of GhGetFile: 404 is not told apart from the other failures.
GhGetFile_Throw404(r) ==
    IF r.status # 200 THEN [kind |-> "throw", status |-> r.status, items |-> {},
                            content |-> None, sha |-> NoSha]
    ELSE IF r.array THEN [kind |-> "dir", status |-> 200, items |-> r.items,
                          content |-> None, sha |-> NoSha]
    ELSE [kind |-> "file", status |-> 200, items |-> {},
          content |-> Some(Base64Decode(r.content)), sha |-> r.sha]

\* ghGetFile: null on 404, throws on any other non-ok status, the array of a
\* directory listing, or { sha, content } of a file.
GhGetFile(r) ==
    IF r.status = 404 THEN [kind |-> "null", status |-> 404, items |-> {},
                            content |-> None, sha |-> NoSha]
    ELSE IF r.status # 200 THEN [kind |-> "throw", status |-> r.status, items |-> {},
                                 content |-> None, sha |-> NoSha]
    ELSE IF r.array THEN [kind |-> "dir", status |-> 200, items |-> r.items,
                          content |-> None, sha |-> NoSha]
    ELSE [kind |-> "file", status |-> 200, items |-> {},
          content |-> Some(Base64Decode(r.content)), sha |-> r.sha]

\* Mutant of MergeEntry: the entry is built from the request body alone.
MergeEntry_NoPrev(req, prev, t) ==
    [values    |-> IF req.values # None THEN req.values[1] ELSE {},
     notes     |-> IF req.notes # None THEN req.notes[1] ELSE "",
     updatedAt |-> t,
     createdAt |-> t]

\* The entry POST /api/checklist builds from the request body and the
\* previous entry (None: there is none).
MergeEntry(req, prev, t) ==
    [values    |-> IF req.values # None THEN req.values[1]
                   ELSE IF prev # None THEN prev[1].values ELSE {},
     notes     |-> IF req.notes # None THEN req.notes[1]
                   ELSE IF prev # None THEN prev[1].notes ELSE "",
     updatedAt |-> t,
     createdAt |-> IF prev # None /\ prev[1].createdAt # 0 THEN prev[1].createdAt ELSE t]

SetHandler(h, r) == hs' = [hs EXCEPT ![h] = r]

Fail(h, status) == SetHandler(h, [hs[h] EXCEPT !.pc = "failed", !.err = status])

\* POST /api/checklist, up to the await of getEntry.
Post(h, shopId, date, req) ==
    /\ hs[h].pc = "idle"
    /\ SetHandler(h, [IdleHandler EXCEPT !.pc = "getEntry", !.shop = shopId, !.date = date,
                                         !.req = req, !.at = now])
    /\ UNCHANGED <<remote, shaCtr, now, listing, saved>>
    /\ UNCHANGED outsideGh

\* getEntry answers; the entry is built and saveEntry -> ghPutFile starts by
\* fetching the file again for its sha.
GetEntryResp(h) ==
    /\ hs[h].pc = "getEntry"
    /\ \E r \in GhResponses(EntryPath(hs[h].shop, hs[h].date)) :
         LET f == GhGetFile(r) IN
         IF f.kind \in {"throw", "dir"}
         THEN Fail(h, f.status)
         ELSE LET prev == IF f.kind = "null" THEN None ELSE Some(JsonParse(f.content[1])) IN
              SetHandler(h, [hs[h] EXCEPT !.pc = "putGet", !.prev = prev,
                                          !.readSha = f.sha,
                                          !.entry = MergeEntry(hs[h].req, prev, hs[h].at)])
    /\ UNCHANGED <<remote, shaCtr, now, listing, saved>>
    /\ UNCHANGED outsideGh

\* Mutant of PutGetResp: the fetch is not awaited, the PUT goes out without
\* the sha it would have brought.
PutGetResp_NoAwait(h) ==
    /\ hs[h].pc = "putGet"
    /\ SetHandler(h, [hs[h] EXCEPT !.pc = "putPut", !.sha = NoSha])
    /\ UNCHANGED <<remote, shaCtr, now, listing, saved>>
    /\ UNCHANGED outsideGh

\* ghPutFile: the existing file's sha, if any, goes into the PUT body.
PutGetResp(h) ==
    /\ hs[h].pc = "putGet"
    /\ \E r \in GhResponses(EntryPath(hs[h].shop, hs[h].date)) :
         LET f == GhGetFile(r) IN
         IF f.kind = "throw"
         THEN Fail(h, f.status)
         ELSE SetHandler(h, [hs[h] EXCEPT !.pc = "putPut", !.sha = f.sha])
    /\ UNCHANGED <<remote, shaCtr, now, listing, saved>>
    /\ UNCHANGED outsideGh

\* The PUT is answered: ok ends the request with { ok: true }, anything else
\* throws and the route answers 500.
PutResp(h) ==
    /\ hs[h].pc = "putPut"
    /\ \E r \in PutResponses :
         /\ RemotePut(EntryPath(hs[h].shop, hs[h].date),
                      Base64Encode(JsonStringify(hs[h].entry)), hs[h].sha,
                      [status |-> r.status, sha |-> r.sha])
         /\ IF r.status = 200
            THEN /\ SetHandler(h, [hs[h] EXCEPT !.pc = "done"])
                 /\ saved' = saved \cup {<<hs[h].shop, hs[h].date>>}
            ELSE /\ Fail(h, r.status)
                 /\ UNCHANGED saved
    /\ UNCHANGED <<now, listing>>
    /\ UNCHANGED outsideGh

\* The response has been sent; the next request may come.
FinishH(h) ==
    /\ hs[h].pc \in {"done", "failed"}
    /\ SetHandler(h, IdleHandler)
    /\ UNCHANGED <<remote, shaCtr, now, listing, saved>>
    /\ UNCHANGED outsideGh

V5 == {<<"fridge1", 5>>}

\* Request bodies: values only, notes only.
ReqShapes ==
    {[values |-> Some(V5), notes |-> None],
     [values |-> None, notes |-> Some("ok")]}

InitGh ==
    /\ remote = <<>>
    /\ shaCtr = 0
    /\ now = StartClock
    /\ store = [token |-> TRUE, lastSha |-> NoSha, cache |-> None, cacheSha |-> NoSha,
                cacheTs |-> 0]
    /\ calls = [c \in Callers |-> IdleCall]
    /\ hs = [h \in Handlers |-> IdleHandler]
    /\ listing = NoListing
    /\ saved = {}
    /\ Quiet7
    /\ QuietShops
    /\ QuietPage

\* Two requests for the same shop and date run concurrently.
NextGh ==
    \/ \E h \in Handlers :
          \/ \E req \in ReqShapes : Post(h, Shop1, Date1, req)
          \/ GetEntryResp(h)
          \/ PutGetResp(h)
          \/ PutResp(h)
          \/ FinishH(h)

SpecGh == InitGh /\ [][NextGh]_vars

\* One client saves the entry of one shop and date again and again, each
\* request after the answer to the one before, while time passes.
NextEntrySeq ==
    \/ \E req \in ReqShapes : Post("h1", Shop1, Date1, req)
    \/ GetEntryResp("h1")
    \/ PutGetResp("h1")
    \/ PutResp("h1")
    \/ FinishH("h1")
    \/ Tick

SpecEntrySeq == InitGh /\ [][NextEntrySeq]_vars

(***************************************************************************)
(* part_003: listEntryDates behind GET /api/history/list.                  *)
(***************************************************************************)
\* The characters a date of a request body is made of here: a digit and the
\* substring ".json"; the body's date is not validated by the route.
DateToks == {"1", ".json"}
Dates == {<<a>> : a \in DateToks} \cup {<<a, b>> : a \in DateToks, b \in DateToks}

\* Order of the first characters of the tokens as UTF-16 code units:
\* '.' (46) < '/' (47) < '1' (49) < '2' (50).
TokRank(t) == CASE t = ".json" -> 46 [] t = "/" -> 47 [] t = "1" -> 49 [] OTHER -> 50

\* a < b as Array.prototype.sort compares strings without a comparator.
RECURSIVE StrLess(_, _)
StrLess(a, b) ==
    IF a = <<>> THEN b # <<>>
    ELSE IF b = <<>> THEN FALSE
    ELSE IF Head(a) = Head(b) THEN StrLess(Tail(a), Tail(b))
    ELSE TokRank(Head(a)) < TokRank(Head(b))

\* name.endsWith('.json')
EndsWithJson(name) == name # <<>> /\ name[Len(name)] = ".json"

\* Mutant of StripJson: the extension is left on the name.
StripJson_Keep(name) == name

\* name.replace('.json', ''): the first occurrence is removed.
RECURSIVE StripJson(_)
StripJson(name) ==
    IF name = <<>> THEN <<>>
    ELSE IF Head(name) = ".json" THEN Tail(name)
    ELSE <<Head(name)>> \o StripJson(Tail(name))

\* .sort().reverse() of the mapped names of a set of directory items: one
\* element per item, the greatest first.
RECURSIVE SortedDesc(_)
SortedDesc(items) ==
    IF items = {} THEN <<>>
    ELSE LET top == CHOOSE x \in items :
                       \A y \in items : ~StrLess(StripJson(x.name), StripJson(y.name))
         IN <<StripJson(top.name)>> \o SortedDesc(items \ {top})

\* listEntryDates on the answer r of the GET of the shop's directory.
ListEntryDatesOf(shopId, r) ==
    LET dir == GhGetFile(r) IN
    IF dir.kind = "throw"
    THEN [status |-> "error", http |-> r.status, shop |-> shopId, dates |-> <<>>]
    ELSE IF dir.kind # "dir"
    THEN [status |-> "ok", http |-> r.status, shop |-> shopId, dates |-> <<>>]
    ELSE [status |-> "ok", http |-> r.status, shop |-> shopId,
          dates |-> SortedDesc({x \in dir.items : x.type = "file" /\ EndsWithJson(x.name)})]

\* GET /api/history/list?shopId=...
ListEntryDates(shopId) ==
    /\ listing = NoListing
    /\ \E r \in GhResponses(EntriesDir(shopId)) : listing' = ListEntryDatesOf(shopId, r)
    /\ UNCHANGED <<remote, shaCtr, now, hs, saved>>
    /\ UNCHANGED outsideGh

\* The answer has been sent.
ListDone ==
    /\ listing # NoListing
    /\ listing' = NoListing
    /\ UNCHANGED <<remote, shaCtr, now, hs, saved>>
    /\ UNCHANGED outsideGh

ListReq == [values |-> Some(V5), notes |-> None]

\* One client saves entries under dates of its choosing and asks for the
\* history of a shop, one request after the other.
PostNext(h, d) ==
    /\ listing = NoListing
    /\ Post(h, Shop1, d, ListReq)

ListNext(h, shopId) ==
    /\ hs[h].pc = "idle"
    /\ ListEntryDates(shopId)

NextList ==
    \/ \E d \in Dates : PostNext("h1", d)
    \/ GetEntryResp("h1")
    \/ PutGetResp("h1")
    \/ PutResp("h1")
    \/ FinishH("h1")
    \/ \E sh \in {Shop1, Shop2} : ListNext("h1", sh)
    \/ ListDone

SpecList == InitGh /\ [][NextList]_vars

\* The daily save: values and notes in one request body.
DailyReq == [values |-> Some(V5), notes |-> Some("ok")]

PostDaily(h, d) ==
    /\ listing = NoListing
    /\ Post(h, Shop1, d, DailyReq)

\* A client saves the day's entry and asks for the history of the shop.
NextDaily ==
    \/ \E d \in {Date1, Date2} : PostDaily("h1", d)
    \/ GetEntryResp("h1")
    \/ PutGetResp("h1")
    \/ PutResp("h1")
    \/ FinishH("h1")
    \/ ListNext("h1", Shop1)
    \/ ListDone

SpecDaily == InitGh /\ [][NextDaily]_vars

(***************************************************************************)
(* part_003: the shop index: getAllShops with its bootstrap, GET and POST  *)
(* /api/shops, DELETE /api/shops/:id.                                      *)
(***************************************************************************)
ShopsFile == <<"data", "/", "shops", ".json">>

\* `data/templates/${shopId}.json`
TemplatePath(id) == <<"data", "/", "templates", "/">> \o id \o <<".json">>

\* nanoid(8): the n-th id handed out, different from every other id.
NanoId(n) == <<CASE n = 1 -> "id1" [] n = 2 -> "id2" [] n = 3 -> "id3" [] OTHER -> "id4">>

DefaultShopOf(id) == [id |-> id, name |-> "default", tpl |-> None]
DefaultTemplate == "defaultTemplate"

\* shops.findIndex(s => s.id === incoming.id): 0 stands for -1.
FindIndex(shops, id) ==
    IF id # None /\ \E i \in DOMAIN shops : shops[i].id = id[1]
    THEN CHOOSE i \in DOMAIN shops :
            shops[i].id = id[1] /\ \A j \in 1..(i - 1) : shops[j].id # id[1]
    ELSE 0

\* shops.filter(s => s.id !== id)
FilterOut(shops, id) == SelectSeq(shops, LAMBDA x : x.id # id)

SetShopReq(h, r) == sr' = [sr EXCEPT ![h] = r]

\* ghPutFile(path, JSON.stringify(doc)) is called: its ghGetFile is sent.
StartPut(rec, path, doc, cont) ==
    [rec EXCEPT !.pc = "putGet", !.path = path, !.doc = doc, !.cont = cont, !.sha = NoSha]

Plain(rec) == [h |-> rec, g |-> gen, ok |-> TRUE]

\* The route resumes with the array getAllShops returned.
AfterShops(rec, shops) ==
    CASE rec.route = "list" ->
            Plain([rec EXCEPT !.pc = "responded", !.status = 200, !.shops = shops,
                              !.base = shops])
      [] rec.route = "post" ->
            LET idx == FindIndex(shops, rec.incoming.id)
                fresh == idx = 0 /\ rec.incoming.id = None
                shop == [id |-> IF rec.incoming.id # None THEN rec.incoming.id[1]
                                ELSE NanoId(gen.ids + 1),
                         name |-> rec.incoming.name,
                         tpl |-> rec.incoming.tpl]
                next == IF idx = 0 THEN Append(shops, shop) ELSE [shops EXCEPT ![idx] = shop]
            IN [h |-> StartPut([rec EXCEPT !.shops = next, !.base = shops, !.shop = shop],
                               ShopsFile, ShopsDoc(next), "routePut"),
                g |-> IF fresh THEN [gen EXCEPT !.ids = @ + 1] ELSE gen,
                ok |-> fresh => gen.ids < MaxIds]
      [] OTHER ->
            Plain(StartPut([rec EXCEPT !.shops = FilterOut(shops, rec.delId), !.base = shops],
                           ShopsFile, ShopsDoc(FilterOut(shops, rec.delId)), "routePut"))

\* getAllShops after ghEnsureJson: an empty array gets the default shop,
\* which is written to the index (and then its template).
AfterEnsure(rec, shops) ==
    IF shops = <<>>
    THEN [h |-> StartPut([rec EXCEPT !.shops = <<DefaultShopOf(NanoId(gen.ids + 1))>>,
                                     !.boot = NanoId(gen.ids + 1)],
                         ShopsFile, ShopsDoc(<<DefaultShopOf(NanoId(gen.ids + 1))>>),
                         "bootIndex"),
          g |-> [gen EXCEPT !.ids = @ + 1],
          ok |-> gen.ids < MaxIds]
    ELSE AfterShops(rec, shops)

\* What follows the ghPutFile that has just succeeded.
AfterPut(rec) ==
    CASE rec.cont = "ensured" -> AfterEnsure(rec, <<>>)
      [] rec.cont = "bootIndex" ->
            [h |-> StartPut(rec, TemplatePath(rec.boot), TplDoc(DefaultTemplate), "bootTpl"),
             g |-> [gen EXCEPT !.booted = @ \cup {rec.boot}],
             ok |-> TRUE]
      [] rec.cont = "bootTpl" -> AfterShops(rec, rec.shops)
      [] rec.cont = "routePut" /\ rec.route = "post" /\ rec.shop.tpl # None ->
            Plain(StartPut(rec, TemplatePath(rec.shop.id), TplDoc(rec.shop.tpl[1]), "tplPut"))
      [] OTHER -> Plain([rec EXCEPT !.pc = "responded", !.status = 200])

FailShop(h) == SetShopReq(h, [sr[h] EXCEPT !.pc = "responded", !.status = 500])

\* A request arrives; the route calls getAllShops -> ghEnsureJson -> ghGetFile.
ShopRequest(h, route, incoming, delId) ==
    /\ sr[h].pc = "idle"
    /\ SetShopReq(h, [IdleShop EXCEPT !.pc = "ensureGet", !.route = route,
                                      !.incoming = incoming, !.delId = delId])
    /\ UNCHANGED <<remote, shaCtr, gen>>
    /\ UNCHANGED outsideShops

\* ghEnsureJson: the index is fetched; a missing one is created as [].
EnsureGetResp(h) ==
    /\ sr[h].pc = "ensureGet"
    /\ \E r \in GhResponses(ShopsFile) :
         LET f == GhGetFile(r) IN
         IF f.kind \in {"throw", "dir"}
         THEN FailShop(h) /\ UNCHANGED gen
         ELSE IF f.kind = "null"
         THEN /\ SetShopReq(h, StartPut(sr[h], ShopsFile, ShopsDoc(<<>>), "ensured"))
              /\ UNCHANGED gen
         ELSE LET n == AfterEnsure(sr[h], JsonParse(f.content[1]).shops) IN
              /\ n.ok
              /\ SetShopReq(h, n.h)
              /\ gen' = n.g
    /\ UNCHANGED <<remote, shaCtr>>
    /\ UNCHANGED outsideShops

\* ghPutFile: the existing file's sha, if any, goes into the PUT body.
ShopPutGet(h) ==
    /\ sr[h].pc = "putGet"
    /\ \E r \in GhResponses(sr[h].path) :
         LET f == GhGetFile(r) IN
         IF f.kind = "throw"
         THEN FailShop(h)
         ELSE SetShopReq(h, [sr[h] EXCEPT !.pc = "putPut", !.sha = f.sha])
    /\ UNCHANGED <<remote, shaCtr, gen>>
    /\ UNCHANGED outsideShops

\* The PUT is answered: a refusal throws (the route answers 500), else the
\* caller of ghPutFile goes on.
ShopPutPut(h) ==
    /\ sr[h].pc = "putPut"
    /\ \E r \in PutResponses :
         /\ RemotePut(sr[h].path, Base64Encode(JsonStringify(sr[h].doc)), sr[h].sha,
                      [status |-> r.status, sha |-> r.sha])
         /\ IF r.status # 200
            THEN FailShop(h) /\ UNCHANGED gen
            ELSE LET n == AfterPut(sr[h]) IN
                 /\ n.ok
                 /\ SetShopReq(h, n.h)
                 /\ gen' = n.g
    /\ UNCHANGED outsideShops

\* The response has been sent; the next request may come.
ShopFinish(h) ==
    /\ sr[h].pc = "responded"
    /\ SetShopReq(h, IdleShop)
    /\ UNCHANGED <<remote, shaCtr, gen>>
    /\ UNCHANGED outsideShops

\* The repository a server starts on: empty, or holding two shops with
\* their templates and an entry of the first.
ShopA == [id |-> Shop1, name |-> "A", tpl |-> None]
ShopB == [id |-> Shop2, name |-> "B", tpl |-> None]

PopulatedRemote ==
    [p \in {ShopsFile, TemplatePath(Shop1), TemplatePath(Shop2), EntryPath(Shop1, Date1)} |->
        [text |-> JsonStringify(IF p = ShopsFile THEN ShopsDoc(<<ShopA, ShopB>>)
                                ELSE IF p = EntryPath(Shop1, Date1)
                                THEN [kind |-> "entry", shops |-> <<>>, tpl |-> ""]
                                ELSE TplDoc("t")),
         sha |-> 1]]

InitShops ==
    /\ shaCtr \in {0, 1}
    /\ remote = IF shaCtr = 0 THEN <<>> ELSE PopulatedRemote
    /\ now = StartClock
    /\ store = [token |-> TRUE, lastSha |-> NoSha, cache |-> None, cacheSha |-> NoSha,
                cacheTs |-> 0]
    /\ calls = [c \in Callers |-> IdleCall]
    /\ hs = [h \in Handlers |-> IdleHandler]
    /\ listing = NoListing
    /\ saved = {}
    /\ Quiet7
    /\ QuietShops
    /\ QuietPage

\* Request bodies of POST /api/shops: a new shop without id, a new shop with
\* a template, an update of an existing shop.
Incomings ==
    {[id |-> None, name |-> "C", tpl |-> None],
     [id |-> None, name |-> "D", tpl |-> Some("t2")],
     [id |-> Some(Shop1), name |-> "A2", tpl |-> None]}

DeleteIds == {Shop1, NanoId(1)}

ShopStep(h) ==
    \/ ShopRequest(h, "list", NoIncoming, <<>>)
    \/ \E inc \in Incomings : ShopRequest(h, "post", inc, <<>>)
    \/ \E id \in DeleteIds : ShopRequest(h, "delete", NoIncoming, id)
    \/ EnsureGetResp(h)
    \/ ShopPutGet(h)
    \/ ShopPutPut(h)
    \/ ShopFinish(h)

\* One client, one request after the other.
NextShopsSeq == ShopStep("r1")

SpecShopsSeq == InitShops /\ [][NextShopsSeq]_vars

\* Two requests run concurrently.
NextShops == \E h \in ShopHandlers : ShopStep(h)

SpecShops == InitShops /\ [][NextShops]_vars

(***************************************************************************)
(* server.js: readJson / writeJson and the routes POST, PUT and DELETE     *)
(* /api/admin/shops.                                                       *)
(***************************************************************************)
\* 'shop_' + Date.now().toString(36): requests that follow one another read
\* the clock at different times, so that the n-th id differs from the others.
AdminId(n) == <<"shop_">> \o NanoId(n)

\* readJson(path, fallback): ghTryGet turns every failure into null; null
\* and a directory listing give the fallback.
ReadJson(r, fallback) ==
    IF r.status # 200 \/ r.array THEN fallback ELSE JsonParse(Base64Decode(r.content))

\* A request arrives; the route calls readJson('data/shops.json', []).
AdminRequest(h, route, incoming, id) ==
    /\ sr[h].pc = "idle"
    /\ SetShopReq(h, [IdleShop EXCEPT !.pc = "adminGet", !.route = route,
                                      !.incoming = incoming, !.delId = id])
    /\ UNCHANGED <<remote, shaCtr, gen>>
    /\ UNCHANGED outsideShops

\* readJson answers: POST appends a shop with a new id, PUT replaces the
\* shop of the given id or answers 404, DELETE filters the id out or answers
\* 404; writeJson then starts with its ghTryGet.  An absent name is "".
AdminReadResp(h) ==
    /\ sr[h].pc = "adminGet"
    /\ \E r \in GhResponses(ShopsFile) :
         LET shops == ReadJson(r, ShopsDoc(<<>>)).shops
             rec == sr[h]
             i == FindIndex(shops, Some(rec.delId))
             shop == IF rec.route = "adminPost"
                     THEN [id |-> AdminId(gen.ids + 1),
                           name |-> IF rec.incoming.name = "" THEN "Shop" ELSE rec.incoming.name,
                           tpl |-> None]
                     ELSE IF i # 0 /\ rec.incoming.name # ""
                     THEN [shops[i] EXCEPT !.name = rec.incoming.name]
                     ELSE IF i # 0 THEN shops[i] ELSE NoShop
             next == CASE rec.route = "adminPost" -> Append(shops, shop)
                       [] rec.route = "adminPut" /\ i # 0 -> [shops EXCEPT ![i] = shop]
                       [] rec.route = "adminDelete" -> FilterOut(shops, rec.delId)
                       [] OTHER -> shops
             found == IF rec.route = "adminPut" THEN i # 0
                      ELSE IF rec.route = "adminDelete" THEN Len(next) # Len(shops)
                      ELSE TRUE
         IN /\ rec.route = "adminPost" => gen.ids < MaxIds
            /\ gen' = IF rec.route = "adminPost" THEN [gen EXCEPT !.ids = @ + 1] ELSE gen
            /\ IF ~found
               THEN SetShopReq(h, [rec EXCEPT !.pc = "responded", !.status = 404])
               ELSE SetShopReq(h, [rec EXCEPT !.pc = "adminPutGet", !.shops = next,
                                              !.base = shops, !.shop = shop,
                                              !.path = ShopsFile, !.doc = ShopsDoc(next),
                                              !.cont = "adminPut", !.sha = NoSha])
    /\ UNCHANGED <<remote, shaCtr>>
    /\ UNCHANGED outsideShops

\* writeJson: the sha of the existing file, or none when ghTryGet gave null.
AdminPutGet(h) ==
    /\ sr[h].pc = "adminPutGet"
    /\ \E r \in GhResponses(sr[h].path) :
         SetShopReq(h, [sr[h] EXCEPT !.pc = "adminPutPut",
                                    !.sha = IF r.status = 200 /\ ~r.array THEN r.sha ELSE NoSha])
    /\ UNCHANGED <<remote, shaCtr, gen>>
    /\ UNCHANGED outsideShops

\* ghPut is answered: the route answers 201, 200 or 204; a refusal rejects
\* the async route, and no answer is sent (status 0).
AdminPutPut(h) ==
    /\ sr[h].pc = "adminPutPut"
    /\ \E r \in PutResponses :
         /\ RemotePut(sr[h].path, Base64Encode(JsonStringify(sr[h].doc)), sr[h].sha,
                      [status |-> r.status, sha |-> r.sha])
         /\ SetShopReq(h, [sr[h] EXCEPT
                             !.pc = "responded",
                             !.status = IF r.status # 200 THEN 0
                                        ELSE CASE sr[h].route = "adminPost" -> 201
                                               [] sr[h].route = "adminPut" -> 200
                                               [] OTHER -> 204])
    /\ UNCHANGED gen
    /\ UNCHANGED outsideShops

AdminStep(h) ==
    \/ \E inc \in Incomings : AdminRequest(h, "adminPost", inc, <<>>)
    \/ \E inc \in Incomings, id \in DeleteIds : AdminRequest(h, "adminPut", inc, id)
    \/ \E id \in DeleteIds : AdminRequest(h, "adminDelete", NoIncoming, id)
    \/ AdminReadResp(h)
    \/ AdminPutGet(h)
    \/ AdminPutPut(h)
    \/ ShopFinish(h)

\* One administrator, one request after the other.
NextAdmin == AdminStep("r1")

SpecAdmin == InitShops /\ [][NextAdmin]_vars

\* The first requests for the shops of an empty repository run concurrently.
InitBoot ==
    /\ InitShops
    /\ shaCtr = 0

BootStep(h) ==
    \/ ShopRequest(h, "list", NoIncoming, <<>>)
    \/ EnsureGetResp(h)
    \/ ShopPutGet(h)
    \/ ShopPutPut(h)
    \/ ShopFinish(h)

NextBoot == \E h \in ShopHandlers : BootStep(h)

SpecBoot == InitBoot /\ [][NextBoot]_vars

(***************************************************************************)
(* part_007: POST /api/checklist writes the entry to the local data        *)
(* directory and commits it with commitToGitHub.                           *)
(***************************************************************************)

\* `data/entries/${date}__${shopId}.json`
EntryPath7(shopId, date) ==
    <<"data", "/", "entries", "/">> \o date \o <<"__">> \o shopId \o <<".json">>

\* The entry built from the request body.
Entry7(date, shopId, req, t) ==
    [date |-> date, shopId |-> shopId,
     values |-> IF req.values = None THEN {} ELSE req.values[1],
     tasks |-> {},
     notes |-> IF req.notes = None THEN "" ELSE req.notes[1],
     savedAt |-> t]

SetLocal(path, entry) ==
    local7' = [q \in DOMAIN local7 \cup {path} |->
                 IF q = path THEN JsonStringify(entry) ELSE local7[q]]

\* The route up to the first await inside commitToGitHub: 400 without date
\* or shopId; else the local file is written, and commitToGitHub returns at
\* once when there is no client, so that the route answers { ok: true }.
Post7(date, shopId, req) ==
    /\ cm.pc = "idle"
    /\ IF date = <<>> \/ shopId = <<>>
       THEN /\ cm' = [IdleCommit EXCEPT !.pc = "responded", !.status = 400]
            /\ UNCHANGED local7
       ELSE /\ SetLocal(EntryPath7(shopId, date), Entry7(date, shopId, req, now))
            /\ cm' = [IdleCommit EXCEPT
                        !.pc = IF gh7 THEN "getSha" ELSE "responded",
                        !.status = IF gh7 THEN 0 ELSE 200,
                        !.path = EntryPath7(shopId, date),
                        !.entry = Entry7(date, shopId, req, now)]
    /\ UNCHANGED <<remote, shaCtr, now, gh7>>
    /\ UNCHANGED outside7

\* getGitHubFileSha: the sha of the file, or null on any failure.
GetShaResp7 ==
    /\ cm.pc = "getSha"
    /\ \E r \in GetResponses(cm.path) :
         cm' = [cm EXCEPT !.pc = "put", !.sha = IF r.status = 200 THEN r.sha ELSE NoSha]
    /\ UNCHANGED <<remote, shaCtr, now, gh7, local7>>
    /\ UNCHANGED outside7

\* The PUT of commitToGitHub is answered: the route answers { ok: true }, or
\* the request error leaves the async route without an answer.
PutResp7 ==
    /\ cm.pc = "put"
    /\ \E r \in PutResponses :
         /\ RemotePut(cm.path, Base64Encode(JsonStringify(cm.entry)), cm.sha,
                      [status |-> r.status, sha |-> r.sha])
         /\ cm' = [cm EXCEPT !.pc = IF r.status = 200 THEN "responded" ELSE "threw",
                             !.status = r.status]
    /\ UNCHANGED <<now, gh7, local7>>
    /\ UNCHANGED outside7

\* The request is over; the next one may come.
Finish7 ==
    /\ cm.pc \in {"responded", "threw"}
    /\ cm' = IdleCommit
    /\ UNCHANGED <<remote, shaCtr, now, gh7, local7>>
    /\ UNCHANGED outside7

Init7 ==
    /\ remote = <<>>
    /\ shaCtr = 0
    /\ now = StartClock
    /\ store = [token |-> TRUE, lastSha |-> NoSha, cache |-> None, cacheSha |-> NoSha,
                cacheTs |-> 0]
    /\ calls = [c \in Callers |-> IdleCall]
    /\ hs = [h \in Handlers |-> IdleHandler]
    /\ listing = NoListing
    /\ saved = {}
    /\ gh7 \in BOOLEAN
    /\ local7 = <<>>
    /\ cm = IdleCommit
    /\ QuietShops
    /\ QuietPage

Next7 ==
    \/ \E d \in {<<>>, Date1, Date2}, sh \in {<<>>, Shop1}, req \in ReqShapes : Post7(d, sh, req)
    \/ GetShaResp7
    \/ PutResp7
    \/ Finish7

Spec7 == Init7 /\ [][Next7]_vars

(***************************************************************************)
(* public/assets/helpers.js: the offline queue of the page.                *)
(***************************************************************************)
SetFlush(f, r) == fl' = [fl EXCEPT ![f] = r]

\* What a fetch of flushQueue ends with: an ok response, a response that is
\* not ok, or a rejection.
FetchOutcomes == {"ok", "status", "throw"}

\* Mutant of KeepAfter: a job is kept whatever its request was answered.
KeepAfter_Always(keep, job, out) == Append(keep, job)

\* try { ...; if(!res.ok) throw ... } catch(e){ keep.push(job); }
KeepAfter(keep, job, out) == IF out = "ok" THEN keep ELSE Append(keep, job)

\* addToQueue: load, push, save.  A job is told from the others by its
\* entry and enqueued_at: here by its number.
AddToQueue ==
    /\ enq < MaxJobs
    /\ enq' = enq + 1
    /\ queue' = Append(queue, enq + 1)

\* enqueueIfOffline: while online it returns false and stores nothing.
EnqueueIfOffline ==
    /\ ~online
    /\ AddToQueue
    /\ UNCHANGED <<online, fl, sent>>
    /\ UNCHANGED serverVars

\* flushQueue up to its first await, with navigator.onLine = on: it returns
\* when offline or when the queue is empty, else it loads the queue and
\* sends the request of the first job.
FlushBegin(f, on) ==
    /\ fl[f].pc = "idle"
    /\ IF ~on
       THEN SetFlush(f, [IdleFlush EXCEPT !.pc = "offline"])
       ELSE IF queue = <<>>
       THEN SetFlush(f, [IdleFlush EXCEPT !.pc = "empty"])
       ELSE SetFlush(f, [IdleFlush EXCEPT !.pc = "fetch", !.q = queue, !.i = 1])

\* flushQueue is called: by set() when the page boots, by the
\* service-worker-ready callback, or through window.Bunca.
FlushQueue(f) ==
    /\ FlushBegin(f, online)
    /\ UNCHANGED <<queue, online, sent, enq>>
    /\ UNCHANGED serverVars

\* The 'online' event: set() calls flushQueue.
OnlineEvent(f) ==
    /\ ~online
    /\ online' = TRUE
    /\ FlushBegin(f, TRUE)
    /\ UNCHANGED <<queue, sent, enq>>
    /\ UNCHANGED serverVars

\* The 'offline' event: set() only shows a toast.
OfflineEvent ==
    /\ online
    /\ online' = FALSE
    /\ UNCHANGED <<queue, fl, sent, enq>>
    /\ UNCHANGED serverVars

\* The fetch of the current job ends; the loop goes on to the next job, or
\* after the last one saveQueue(keep) replaces the stored queue.  While the
\* browser is offline a fetch can only be rejected.
FetchResp(f, out) ==
    /\ fl[f].pc = "fetch"
    /\ ~online => out = "throw"
    /\ LET job == fl[f].q[fl[f].i]
           keep == KeepAfter(fl[f].keep, job, out)
           log == Append(fl[f].log, <<job, out>>)
       IN /\ out = "ok" => sent[job] < MaxSends
          /\ sent' = IF out = "ok" THEN [sent EXCEPT ![job] = @ + 1] ELSE sent
          /\ IF fl[f].i = Len(fl[f].q)
             THEN /\ queue' = keep
                  /\ SetFlush(f, [fl[f] EXCEPT !.pc = "saved", !.keep = keep, !.log = log])
             ELSE /\ UNCHANGED queue
                  /\ SetFlush(f, [fl[f] EXCEPT !.i = @ + 1, !.keep = keep, !.log = log])
    /\ UNCHANGED <<online, enq>>
    /\ UNCHANGED serverVars

\* The run is over; flushQueue may be called again.
FlushDone(f) ==
    /\ fl[f].pc \in {"offline", "empty", "saved"}
    /\ SetFlush(f, IdleFlush)
    /\ UNCHANGED <<queue, online, sent, enq>>
    /\ UNCHANGED serverVars

\* The page opens on the queue an earlier visit has left in localStorage.
InitPage ==
    /\ remote = <<>>
    /\ shaCtr = 0
    /\ now = StartClock
    /\ store = [token |-> TRUE, lastSha |-> NoSha, cache |-> None, cacheSha |-> NoSha,
                cacheTs |-> 0]
    /\ calls = [c \in Callers |-> IdleCall]
    /\ hs = [h \in Handlers |-> IdleHandler]
    /\ listing = NoListing
    /\ saved = {}
    /\ Quiet7
    /\ QuietShops
    /\ online \in BOOLEAN
    /\ enq \in {0, 1}
    /\ queue = [k \in 1..enq |-> k]
    /\ fl = [f \in Flushers |-> IdleFlush]
    /\ sent = [j \in 1..MaxJobs |-> 0]

FlushStep(f) ==
    \/ FlushQueue(f)
    \/ OnlineEvent(f)
    \/ \E out \in FetchOutcomes : FetchResp(f, out)
    \/ FlushDone(f)

\* Nothing else runs between the call of flushQueue and its return.
EnqueueBetweenFlushes ==
    /\ \A f \in Flushers : fl[f].pc = "idle"
    /\ EnqueueIfOffline

NextFlushSeq ==
    \/ FlushStep("f1")
    \/ OfflineEvent
    \/ EnqueueBetweenFlushes

SpecFlushSeq == InitPage /\ [][NextFlushSeq]_vars

\* Runs of flushQueue overlap, and jobs are enqueued while they run.
NextPage ==
    \/ \E f \in Flushers : FlushStep(f)
    \/ OfflineEvent
    \/ EnqueueIfOffline

SpecPage == InitPage /\ [][NextPage]_vars

(***************************************************************************)
(* Properties of GitHubStore.                                              *)
(***************************************************************************)

NoForeignCommitSince(c) == shaCtr = calls[c].prev.sha + calls[c].puts

\* C3: a successful write(v) followed by read() returns exactly v.
C3_RoundTrip ==
    \A c \in SeqCallers :
        (calls[c].pc = "returned" /\ calls[c].op = "read" /\ calls[c].prev.op = "write"
            /\ NoForeignCommitSince(c))
        => calls[c].result = Some(calls[c].prev.data)

\* C4: the read that follows a successful write never returns the content
\* of a revision older than the one the write committed.
C4_ReadAfterWriteNotOlder ==
    \A c \in SeqCallers :
        (calls[c].pc = "returned" /\ calls[c].op = "read" /\ calls[c].prev.op = "write")
        => calls[c].resultSha >= calls[c].prev.sha

\* A read served from the cache right after a write that replaced a revision.
C4_Witness ==
    \E c \in SeqCallers :
        /\ calls[c].pc = "returned" /\ calls[c].op = "read" /\ calls[c].prev.op = "write"
        /\ calls[c].prev.sha >= 2
        /\ calls[c].puts = 0 /\ store.cacheTs = now
        /\ calls[c].result = Some(calls[c].prev.data)

\* The sha a pending PUT carries is not the current one of the file.
StalePut(c) ==
    /\ calls[c].pc = "put"
    /\ calls[c].sha # NoSha
    /\ (~Exists(DbFile) \/ remote[DbFile].sha # calls[c].sha)

\* C6: a PUT carrying a stale sha is answered with a failure and changes
\* neither the file nor its sha; the store does not send it again.
C6_StaleTokenRejected ==
    [][\A c \in SeqCallers :
          /\ (StalePut(c) /\ calls'[c].pc = "gotPut")
                => (remote' = remote /\ calls'[c].resp.status # 200)
          /\ (calls[c].pc = "gotPut" /\ calls[c].resp.status # 200 /\ calls'[c] # calls[c])
                => (calls'[c].pc = "thrown" /\ calls'[c].puts = calls[c].puts)]_vars

C6_Witness ==
    \E c \in SeqCallers :
        /\ calls[c].pc = "thrown" /\ calls[c].resp.status = 409
        /\ calls[c].sha # NoSha /\ Exists(DbFile)
        /\ remote[DbFile].sha > calls[c].sha

\* The PUT of call c has been answered.
PutServed(c) == calls[c].puts = 1 /\ calls[c].pc \in {"gotPut", "returned", "thrown"}

C13_AuthErrorIsFatal ==
    [][\A c \in SeqCallers :
          (calls[c].pc \in {"gotGet", "gotPut"} /\ calls[c].resp.status = 401
             /\ calls'[c] # calls[c])
          => (calls'[c].pc = "thrown" /\ calls'[c].puts = calls[c].puts /\ store' = store)]_vars

\* C15: with reads and writes of several callers in flight, a read that a
\* caller starts after its write has returned never returns content of a
\* revision older than the one that write committed.
C15_LateFetchCannotUndoWrite ==
    \A c \in Callers :
        (calls[c].pc = "returned" /\ calls[c].op = "read" /\ calls[c].prev.op = "write")
        => calls[c].resultSha >= calls[c].prev.sha

\* C16: a call that meets a 5xx either sends the same request again or
\* surfaces the failure to its caller; it does nothing else.
C16_TransientRetriedThenSurfaced ==
    [][\A c \in SeqCallers :
          /\ (calls[c].pc = "gotGet" /\ calls[c].resp.status = 500 /\ calls'[c] # calls[c])
                => calls'[c].pc \in {"get", "thrown"}
          /\ (calls[c].pc = "gotPut" /\ calls[c].resp.status = 500 /\ calls'[c] # calls[c])
                => (calls'[c].pc \in {"put", "thrown"} /\ calls'[c].data = calls[c].data)]_vars

\* C17: read() answers from the cache, without a request, exactly when an
\* entry is cached that is younger than the TTL; else it sends the GET, and
\* a GET answered 200 stores content, sha and fetch time and returns the
\* content fetched.
C17_CacheHitIffFresh ==
    [][\A c \in SeqCallers :
          /\ (calls[c].pc = "idle" /\ calls'[c].op = "read")
                => /\ (calls'[c].pc = "returned")
                          <=> (store.cache # None /\ now - store.cacheTs < TTL)
                   /\ calls'[c].pc = "returned"
                          => (calls'[c].result = store.cache /\ calls'[c].puts = 0)
                   /\ calls'[c].pc # "returned"
                          => calls'[c].pc = (IF store.token THEN "get" ELSE "thrown")
          /\ (calls[c].pc = "gotGet" /\ calls[c].resp.status = 200 /\ calls'[c] # calls[c])
                => /\ calls'[c].pc = "returned"
                   /\ calls'[c].result = Some(JsonParse(Base64Decode(calls[c].resp.content)))
                   /\ store'.cache = calls'[c].result
                   /\ store'.lastSha = calls[c].resp.sha
                   /\ store'.cacheTs = now]_vars

\* A read served from an entry one millisecond short of the TTL.
C17_Witness ==
    \E c \in SeqCallers :
        /\ calls[c].pc = "returned" /\ calls[c].op = "read" /\ calls[c].puts = 0
        /\ now - store.cacheTs = TTL - 1
        /\ calls[c].result = store.cache

\* C18: an absence is never kept in the cache: what the cache holds, and
\* what a read returns, is a committed revision of the document, and a GET
\* answered 200 returns the revision fetched.
C18_NotFoundNotCached ==
    /\ [](store.cache # None
            => (store.cacheSha # NoSha /\ Exists(DbFile)
                  /\ store.cacheSha <= remote[DbFile].sha))
    /\ [](\A c \in SeqCallers :
            (calls[c].pc = "returned" /\ calls[c].op = "read")
            => (calls[c].result # None /\ calls[c].resultSha # NoSha /\ Exists(DbFile)))
    /\ [][\A c \in SeqCallers :
            (calls[c].pc = "gotGet" /\ calls[c].resp.status = 200 /\ calls'[c] # calls[c])
            => calls'[c].resultSha = calls[c].resp.sha]_vars

\* A read returns the document another process created after the previous
\* read of the same caller had found none and failed to create the default.
C18_Witness ==
    \E c \in SeqCallers :
        /\ calls[c].pc = "returned" /\ calls[c].op = "read" /\ calls[c].puts = 0
        /\ calls[c].prev.was = "read" /\ calls[c].prev.op = "failed" /\ calls[c].prev.puts = 1
        /\ store.cacheTs = now
        /\ remote[DbFile].sha = 1
        /\ calls[c].result = Some({"a"})

\* C23: read() creates the default document only when the file does not
\* exist: whatever the GET answered and whatever lastSha holds, a read never
\* replaces existing non-empty content.
C23_ReadNeverOverwrites ==
    [][\A c \in SeqCallers :
          (calls[c].op = "read" /\ Exists(DbFile)
             /\ JsonParse(remote[DbFile].text) # InitDb /\ calls'[c] # calls[c])
          => remote' = remote]_vars

\* C24: a write whose PUT is refused throws and leaves cache, cacheTs and
\* lastSha as they were before the call: no step of the call but the one that
\* takes an ok answer changes the store; after an ok answer the cache holds
\* the data written and lastSha the version the remote returned.
C24_FailedWriteLeavesStore ==
    [][\A c \in SeqCallers :
          /\ (calls[c].pc = "gotPut" /\ calls[c].resp.status # 200 /\ calls'[c] # calls[c])
                => (calls'[c].pc = "thrown" /\ store' = store)
          /\ (calls[c].pc = "gotPut" /\ calls[c].resp.status = 200 /\ calls'[c] # calls[c])
                => (/\ calls'[c].pc = "returned"
                    /\ store'.cache = Some(calls[c].data)
                    /\ store'.lastSha = calls[c].resp.sha
                    /\ store'.cacheTs = now)
          /\ ((calls[c].op = "write" \/ calls'[c].op = "write")
                /\ ~(calls[c].pc = "gotPut" /\ calls[c].resp.status = 200))
                => store' = store]_vars

\* A write refused as a conflict has thrown; the store holds the content and
\* the version of the read before it.
C24_Witness ==
    \E c \in SeqCallers :
        /\ calls[c].pc = "thrown" /\ calls[c].op = "write" /\ calls[c].resp.status = 409
        /\ calls[c].prev.op = "read"
        /\ store.lastSha = calls[c].prev.sha /\ store.lastSha # NoSha
        /\ store.cache # None /\ store.cache # Some(calls[c].data)
        /\ store.cacheTs # 0

\* C22: a write commits only when its data was derived from the revision
\* stored remotely: the revision that the caller's read() returned is still
\* the current one when the PUT of its write is accepted.
C22_WriteDerivedFromCurrent ==
    [][\A c \in Callers :
          (calls[c].pc = "put" /\ calls[c].op = "write" /\ calls[c].prev.op = "read"
             /\ calls'[c].pc = "gotPut" /\ calls'[c].resp.status = 200)
          => (Exists(DbFile) /\ remote[DbFile].sha = calls[c].prev.sha)]_vars

(***************************************************************************)
(* Properties of the routes of part_003.                                   *)
(***************************************************************************)
Entry1 == EntryPath(Shop1, Date1)

ValuesOnly(h) == hs[h].req.values # None /\ hs[h].req.notes = None
NotesOnly(h) == hs[h].req.values = None /\ hs[h].req.notes # None

\* C1: two writers that read the same version both end committed, the
\* second on top of the first: the document carries the change of each.
C1_ConflictConvergence ==
    \A a, b \in Handlers :
        (/\ a # b
         /\ hs[a].pc = "done" /\ ValuesOnly(a)
         /\ hs[b].pc \in {"done", "failed"} /\ NotesOnly(b)
         /\ hs[b].err \notin FaultStatuses
         /\ hs[a].readSha = hs[b].readSha)
        => (/\ hs[b].pc = "done"
            /\ JsonParse(remote[Entry1].text).values = hs[a].req.values[1]
            /\ JsonParse(remote[Entry1].text).notes = hs[b].req.notes[1])

\* mutate applied to the default entry { values: {}, notes: '' }.
DefaultMutated(req, t) ==
    [values    |-> IF req.values = None THEN {} ELSE req.values[1],
     notes     |-> IF req.notes = None THEN "" ELSE req.notes[1],
     updatedAt |-> t,
     createdAt |-> t]

\* C8: a 404 never fails a save; a request that found no document builds
\* its entry from the default, sends the PUT without a sha, and the
\* document then exists with exactly that content.
C8_MissingDocumentCreated ==
    /\ [](\A h \in Handlers :
            /\ hs[h].pc = "failed" => hs[h].err \in {409} \cup FaultStatuses
            /\ (hs[h].pc \in {"putGet", "putPut", "done"} /\ hs[h].prev = None)
                  => hs[h].entry = DefaultMutated(hs[h].req, hs[h].at))
    /\ [][\A h \in Handlers :
            (/\ hs[h].pc = "putPut" /\ hs'[h].pc = "done"
             /\ hs[h].prev = None /\ hs[h].sha = NoSha
             /\ EntryPath(hs[h].shop, hs[h].date) \notin DOMAIN remote)
            => (/\ EntryPath(hs[h].shop, hs[h].date) \in DOMAIN remote'
                /\ JsonParse(remote'[EntryPath(hs[h].shop, hs[h].date)].text)
                      = DefaultMutated(hs[h].req, hs[h].at))]_vars

C8_Witness ==
    \E h \in Handlers :
        /\ hs[h].pc = "done" /\ hs[h].prev = None /\ hs[h].sha = NoSha
        /\ Exists(Entry1)
        /\ JsonParse(remote[Entry1].text) = DefaultMutated(hs[h].req, hs[h].at)
        /\ remote[Entry1].sha = 1

\* C20: the steps of one save follow one another: the entry is built when
\* getEntry has answered, the PUT is issued when the fetch of ghPutFile has
\* answered and carries the sha of that answer, and the answer to the PUT
\* ends the call: one commit at most, no second PUT.
C20_StepsSequential ==
    [][\A h \in Handlers :
          LET path == EntryPath(hs[h].shop, hs[h].date) IN
          /\ (hs'[h].pc = "putGet" /\ hs[h].pc # "putGet")
                => (hs[h].pc = "getEntry"
                      /\ hs'[h].entry = MergeEntry(hs[h].req, hs'[h].prev, hs[h].at))
          /\ (hs'[h].pc = "putPut" /\ hs[h].pc # "putPut")
                => (hs[h].pc = "putGet"
                      /\ hs'[h].entry = hs[h].entry
                      /\ hs'[h].sha = (IF Exists(path) THEN remote[path].sha ELSE NoSha))
          /\ (hs[h].pc = "putPut" /\ hs'[h] # hs[h])
                => (hs'[h].pc \in {"done", "failed"} /\ shaCtr' \in {shaCtr, shaCtr + 1})
          /\ (hs[h].pc # "putPut" /\ hs'[h] # hs[h]) => remote' = remote]_vars

\* A save that replaced the revision its fetch had seen.
C20_Witness ==
    \E h \in Handlers :
        /\ hs[h].pc = "done" /\ hs[h].sha # NoSha
        /\ Exists(Entry1) /\ remote[Entry1].sha = hs[h].sha + 1

\* The stored entry of the shop and date, None when there is none.
StoredEntry1 == IF Exists(Entry1) THEN Some(JsonParse(remote[Entry1].text)) ELSE None

\* C30: saves of one (shopId, date) that follow one another merge with the
\* stored entry: createdAt is the time of the first save and never changes,
\* updatedAt is the time of the save, and values (notes) that the body omits
\* stay as stored.
C30_SaveMergesWithPrevious ==
    /\ [][(StoredEntry1 # None)
            => (Exists(Entry1)' /\ JsonParse(remote'[Entry1].text).createdAt
                                     = StoredEntry1[1].createdAt)]_vars
    /\ [][(hs["h1"].pc = "putPut" /\ hs'["h1"].pc = "done")
            => LET old == StoredEntry1
                   new == JsonParse(remote'[Entry1].text)
                   req == hs["h1"].req
               IN /\ new.updatedAt = hs["h1"].at
                  /\ new.createdAt = (IF old = None THEN hs["h1"].at ELSE old[1].createdAt)
                  /\ new.values = (IF req.values # None THEN req.values[1]
                                   ELSE IF old # None THEN old[1].values ELSE {})
                  /\ new.notes = (IF req.notes # None THEN req.notes[1]
                                  ELSE IF old # None THEN old[1].notes ELSE "")]_vars

\* A later save that gave only notes: the values of the first save and its
\* createdAt are still stored, updatedAt is the time of the later save.
C30_Witness ==
    /\ hs["h1"].pc = "done" /\ NotesOnly("h1")
    /\ StoredEntry1 # None
    /\ StoredEntry1[1].values = V5 /\ StoredEntry1[1].notes = "ok"
    /\ StoredEntry1[1].createdAt = StartClock
    /\ StoredEntry1[1].updatedAt > StartClock
    /\ StoredEntry1[1].updatedAt = hs["h1"].at

(***************************************************************************)
(* Properties of listEntryDates.                                           *)
(***************************************************************************)
EmptyArrayResponse ==
    [status |-> 200, array |-> TRUE, items |-> {}, content |-> None, sha |-> NoSha]

SavedDates(shopId) == {k[2] : k \in {x \in saved : x[1] = shopId}}

\* C9: a listing whose directory was never written (the API answers 404)
\* is the empty list and no error, as for a directory without children.
C9_EmptyPrefixListing ==
    /\ listing.http = 404
         => (/\ listing.status = "ok" /\ listing.dates = <<>>
             /\ listing.dates = ListEntryDatesOf(listing.shop, EmptyArrayResponse).dates
             /\ listing.status = ListEntryDatesOf(listing.shop, EmptyArrayResponse).status)
    /\ (listing.status # "none" /\ listing.http \notin FaultStatuses
           /\ SavedDates(listing.shop) = {})
         => (listing.status = "ok" /\ listing.dates = <<>>)

\* The history of a shop nothing was saved for, while another shop has entries.
C9_Witness ==
    /\ listing.http = 404 /\ listing.status = "ok" /\ listing.dates = <<>>
    /\ listing.shop = Shop2
    /\ saved # {}

Range(q) == {q[i] : i \in DOMAIN q}

\* C10: a listing holds every saved key of the shop exactly once, without
\* the extension, the greatest key first.
C10_ListingIsSavedKeysDescending ==
    listing.status = "ok"
        => (/\ Range(listing.dates) = SavedDates(listing.shop)
            /\ Len(listing.dates) = Cardinality(SavedDates(listing.shop))
            /\ \A i \in 1..(Len(listing.dates) - 1) :
                    StrLess(listing.dates[i + 1], listing.dates[i]))

(***************************************************************************)
(* Properties of commitToGitHub.                                           *)
(***************************************************************************)

\* C5: a save that is answered { ok: true } has been committed: the remote
\* document holds the entry that was written.
C5_NoSilentDrop ==
    (cm.pc = "responded" /\ cm.status = 200)
        => (Exists(cm.path) /\ JsonParse(remote[cm.path].text) = cm.entry)

\* C21: one layout everywhere: the path a component writes an entry to is
\* entryPath(shopId, date) = data/entries/{shopId}/{date}.json.
C21_OneEntryLayout ==
    cm.path # <<>> => cm.path = EntryPath(cm.entry.shopId, cm.entry.date)

(***************************************************************************)
(* Properties of the offline queue.                                        *)
(***************************************************************************)
InQueue(j) == \E k \in DOMAIN queue : queue[k] = j

\* C25: every job added is in the stored queue until a request of it has
\* been answered ok.
C25_NoLostJob ==
    \A j \in 1..enq : InQueue(j) \/ sent[j] > 0

\* C26: no job is sent successfully more than once.
C26_AtMostOnce ==
    \A j \in 1..MaxJobs : sent[j] <= 1

\* The jobs of a run's fetches that were not answered ok, in fetch order.
RECURSIVE FailedOf(_)
FailedOf(log) ==
    IF log = <<>> THEN <<>>
    ELSE (IF Head(log)[2] = "ok" THEN <<>> ELSE <<Head(log)[1]>>) \o FailedOf(Tail(log))

\* The run of flushQueue that nothing is interleaved with.
Run == fl["f1"]

\* C27: a run of flushQueue with nothing interleaved changes nothing while
\* offline; while online it fetches every job of the stored queue once, in
\* queue order, and when it has ended the stored queue holds exactly the
\* jobs whose fetch threw or was answered not ok, in their original order.
C27_SingleFlush ==
    /\ [](Run.pc = "fetch"
            => (/\ Run.q = queue /\ Run.i = Len(Run.log) + 1 /\ Run.i <= Len(Run.q)
                /\ \A k \in DOMAIN Run.log : Run.log[k][1] = Run.q[k]
                /\ Run.keep = FailedOf(Run.log)))
    /\ [](Run.pc = "saved"
            => (/\ Len(Run.log) = Len(Run.q)
                /\ \A k \in DOMAIN Run.q : Run.log[k][1] = Run.q[k]
                /\ queue = FailedOf(Run.log)))
    /\ [][/\ (Run.pc = "idle" /\ fl'["f1"].pc # "idle")
                => (/\ queue' = queue /\ sent' = sent
                    /\ fl'["f1"].pc = (IF ~online' THEN "offline"
                                       ELSE IF queue = <<>> THEN "empty" ELSE "fetch")
                    /\ (fl'["f1"].pc = "fetch" => fl'["f1"].q = queue))
          /\ (Run.pc \in {"offline", "empty"} => (queue' = queue /\ sent' = sent))
          /\ (Run.pc = "fetch" /\ fl'["f1"] # Run)
                => \A j \in 1..MaxJobs :
                      sent'[j] = sent[j] + (IF j = Run.q[Run.i] /\ fl'["f1"].log[Run.i][2] = "ok"
                                            THEN 1 ELSE 0)]_vars

\* A run over three jobs has ended: the second was delivered, the first and
\* the third stay in the stored queue, in that order.
C27_Witness ==
    /\ fl["f1"].pc = "saved" /\ fl["f1"].q = <<1, 2, 3>>
    /\ queue = <<1, 3>>
    /\ sent = [j \in 1..MaxJobs |-> IF j = 2 THEN 1 ELSE 0]

(***************************************************************************)
(* Properties of the daily save.                                           *)
(***************************************************************************)

\* C12: a save of values.fridge1 = 5 and notes = "ok" on a day without an
\* entry stores a document with both fields set, and a listing of the
\* shop's entries then includes every date saved.
C12_DailySave ==
    /\ [](listing.status = "ok" => SavedDates(listing.shop) \subseteq Range(listing.dates))
    /\ [][\A h \in Handlers :
            (hs[h].pc = "putPut" /\ hs'[h].pc = "done" /\ hs[h].prev = None)
            => (/\ JsonParse(remote'[EntryPath(hs[h].shop, hs[h].date)].text).values = V5
                /\ JsonParse(remote'[EntryPath(hs[h].shop, hs[h].date)].text).notes = "ok")]_vars

C12_Witness ==
    /\ listing.status = "ok" /\ listing.shop = Shop1
    /\ Date1 \in Range(listing.dates)
    /\ Exists(Entry1)
    /\ JsonParse(remote[Entry1].text).values = V5
    /\ JsonParse(remote[Entry1].text).notes = "ok"

(***************************************************************************)
(* Properties of the shop index.                                           *)
(***************************************************************************)
IndexShops == JsonParse(remote[ShopsFile].text).shops

ShopsQuiet == \A h \in ShopHandlers : sr[h].pc = "idle"

\* C11: bootstrap happens once, and once no request is running the index
\* entry it made has its default template.
C11_BootstrapOnce ==
    /\ Cardinality(gen.booted) <= 1
    /\ (ShopsQuiet /\ Exists(ShopsFile))
          => \A id \in gen.booted :
                (\E i \in DOMAIN IndexShops : IndexShops[i].id = id)
                => (/\ Exists(TemplatePath(id))
                    /\ JsonParse(remote[TemplatePath(id)].text) = TplDoc(DefaultTemplate))

\* The step in which an upsert or a delete of request h commits the index.
RouteCommit(h) ==
    /\ sr[h].pc \in {"putPut", "adminPutPut"}
    /\ sr[h].cont \in {"routePut", "adminPut"}
    /\ sr'[h] # sr[h]
    /\ remote' # remote

\* The index before a commit: none stands for the empty array.
OldIndex == IF Exists(ShopsFile) THEN IndexShops ELSE <<>>

HasId(shops, id) == \E i \in DOMAIN shops : shops[i].id = id

\* C29: the index never holds two shops with the same id: an upsert whose
\* id is present replaces that entry in place, one with a new or missing id
\* appends exactly one entry, and a delete removes every entry of the given
\* id and no other.
C29_IdsStayUnique ==
    /\ [](Exists(ShopsFile)
            => \A i, j \in DOMAIN IndexShops :
                  IndexShops[i].id = IndexShops[j].id => i = j)
    /\ [][\A h \in ShopHandlers :
            RouteCommit(h)
            => LET new == JsonParse(remote'[ShopsFile].text).shops IN
               IF sr[h].route \in {"delete", "adminDelete"}
               THEN new = FilterOut(OldIndex, sr[h].delId)
               ELSE IF HasId(OldIndex, sr[h].shop.id)
               THEN /\ Len(new) = Len(OldIndex)
                    /\ \A i \in DOMAIN new :
                          new[i] = IF OldIndex[i].id = sr[h].shop.id THEN sr[h].shop
                                   ELSE OldIndex[i]
               ELSE new = Append(OldIndex, sr[h].shop)]_vars

\* C28: once concurrent first requests have bootstrapped the empty store and
\* none is running any more, the index holds exactly one shop, the default
\* shop of a bootstrap, and the template document of that shop exists.
C28_ConcurrentBootstrap ==
    (ShopsQuiet /\ gen.booted # {})
        => (/\ Exists(ShopsFile)
            /\ Len(IndexShops) = 1
            /\ IndexShops[1].id \in gen.booted
            /\ Exists(TemplatePath(IndexShops[1].id)))

\* The step in which the route of request h commits its rewrite of the index.
IndexCommit(h) ==
    /\ sr[h].pc = "putPut" /\ sr[h].cont = "routePut"
    /\ sr'[h] # sr[h]
    /\ remote' # remote

\* C14: the index a route commits is its change applied to the index it
\* replaces: the array it had read is the content of the current revision.
C14_CommitDerivedFromPredecessor ==
    [][\A h \in ShopHandlers :
          IndexCommit(h) => (Exists(ShopsFile) /\ IndexShops = sr[h].base)]_vars

\* C19: a delete commits the index without the deleted shop and with every
\* other entry as it was; no other document changes and none disappears.
C19_DeleteRewritesIndexOnly ==
    [][/\ DOMAIN remote \subseteq DOMAIN remote'
       /\ \A h \in ShopHandlers :
            (IndexCommit(h) /\ sr[h].route = "delete")
            => (/\ JsonParse(remote'[ShopsFile].text).shops = FilterOut(IndexShops, sr[h].delId)
                /\ \A p \in DOMAIN remote \ {ShopsFile} : remote'[p] = remote[p]
                /\ DOMAIN remote' = DOMAIN remote)]_vars

====
